---- MODULE Spec2Model ----
(***************************************************************************)
(* A model of the dyn_sized crate: the DynSized trait (conversion between  *)
(* fat pointers and their (meta, data pointer) components), its            *)
(* implementations for WrapSized<T>, [T], str, derived trait objects and   *)
(* the MyStruct<T: ?Sized> of tests/unsized_struct_test.rs, the free       *)
(* functions size_of_val / align_of_val and the PtrExt / PtrMutExt         *)
(* extension traits.                                                       *)
(*                                                                         *)
(* A pointer is the sequence of its machine words: <<addr>> for a thin     *)
(* pointer, <<addr, extra>> for a fat one.  Every library function is an   *)
(* operator returning [ret |-> value, derefs |-> addresses it loads from   *)
(* or stores to].  Callers are threads, each with private registers.       *)
(***************************************************************************)
EXTENDS Integers, Sequences, FiniteSets, TLC

VARIABLES obj, args, p, ret, q

vars == <<obj, args, p, ret, q>>

\* ----------------------------------------------------------------- bounds
NumThreads == 2
MaxLen == 2
MaxNest == 1

Threads == 1..NumThreads
MainThread == CHOOSE t \in Threads : \A u \in Threads : t <= u

\* ------------------------------------------------------- host: types, layout
\* size of usize, the type of MyStruct's leading field x
UsizeBytes == 8

ElemTypes == {"u8", "i32"}
SizeOf == [u8 |-> 1, i32 |-> 4]
AlignOf == [u8 |-> 1, i32 |-> 4]

Max(a, b) == IF a >= b THEN a ELSE b
RoundUp(n, al) == ((n + al - 1) \div al) * al

\* The traits with a derived implementation that the model exercises, and the
\* concrete types behind their trait objects.
Traits == {"Any", "Foo"}
Implementors(tr) == IF tr = "Any" THEN ElemTypes ELSE {"i32"}

\* A category: nest layers of MyStruct around a base type.
\* elem is T for WrapSized<T> and [T], "u8" for str, the trait for a trait object.
BaseCats ==
    [nest : {0}, base : {"WrapSized", "Slice"}, elem : ElemTypes]
    \cup [nest : {0}, base : {"Str"}, elem : {"u8"}]
    \cup [nest : {0}, base : {"Trait"}, elem : Traits]

\* Types that have no DynSized implementation: a bare Sized type (no blanket
\* impl) and a trait object whose trait was not given to derive_DynSized!.
NoImplCats ==
    [nest : {0}, base : {"Sized"}, elem : ElemTypes]
    \cup [nest : {0}, base : {"Trait"}, elem : {"Underived"}]

Cats == { [c EXCEPT !.nest = n] : c \in BaseCats \cup NoImplCats, n \in 0..MaxNest }

\* MyStruct<T> |-> T
Inner(c) == [c EXCEPT !.nest = c.nest - 1]

\* The innermost type's kind; nest only wraps it.
BaseOf(c) == c.base

\* The types T with `T: DynSized`: the impls of lib.rs, the derive_DynSized!
\* invocations, and impl<T: DynSized + ?Sized> DynSized for MyStruct<T>.
RECURSIVE ImplementsDynSized(_)
ImplementsDynSized(c) ==
    IF c.nest > 0 THEN ImplementsDynSized(Inner(c))
    ELSE \/ c.base \in {"WrapSized", "Slice", "Str"}
         \/ c.base = "Trait" /\ c.elem \in Traits

\* ------------------------------------------------ host: pointer primitives
\* A function that touches no memory.
Ret(v) == [ret |-> v, derefs |-> {}]

\* mem::transmute between pointer types, `as` casts between raw pointer types
\* and reference-to-raw coercions keep every word of the pointer.
transmute(words) == [i \in 1..Len(words) |-> words[i]]

\* core::raw::Repr / slice::from_raw_parts: a slice pointer is (data, len).
\* The toolchains that accept #![feature(raw)] build from_raw_parts as a
\* transmute of Repr { data, len } with no check of its own, and `&*ptr`,
\* len() and as_ptr() as moves of pointer words: for a null or dangling data
\* pointer the only outcome of the build is the same pair of words.
slice_from_raw_parts(data, len) == <<data, len>>
slice_len(s) == s[2]
slice_as_ptr(s) == s[1]

\* str::from_utf8_unchecked and str::as_bytes reinterpret the same two words.
from_utf8_unchecked(bytes) == transmute(bytes)
as_bytes(s) == transmute(s)

\* core::raw::TraitObject is #[repr(C)] { data, vtable }: transmuting it to or
\* from a trait-object pointer maps field k to word k.
raw_TraitObject_to_ptr(r) == <<r.data, r.vtable>>
raw_TraitObject_from_ptr(w) == [data |-> w[1], vtable |-> w[2]]

\* ------------------------------------------------- lib.rs: WrapSized<T>
\* type Meta = (): the empty tuple.
Unit == <<>>

WrapSized_assemble(meta, data) == Ret(<<data>>)

WrapSized_disassemble(ptr) == Ret(<<Unit, ptr[1]>>)

\* ------------------------------------------------------- lib.rs: [T]
\* Mutant: the arguments of from_raw_parts in the wrong order.
Slice_assemble_swapped(len, data) == Ret(slice_from_raw_parts(len, data))

Slice_assemble(len, data) == Ret(slice_from_raw_parts(data, len))

\* Mutant: the components returned in the wrong order.
Slice_disassemble_swapped(slice) == Ret(<<slice_as_ptr(slice), slice_len(slice)>>)

Slice_disassemble(slice) == Ret(<<slice_len(slice), slice_as_ptr(slice)>>)

\* ------------------------------------------------------- lib.rs: str
\* Mutant: str::from_utf8, which reads the bytes to validate them.
Str_assemble_checked(len, data) ==
    [ret |-> from_utf8_unchecked(slice_from_raw_parts(data, len)),
     derefs |-> { data + i : i \in 0..(len - 1) }]

Str_assemble(len, data) ==
    Ret(from_utf8_unchecked(slice_from_raw_parts(data, len)))

Str_disassemble(s) == Slice_disassemble(as_bytes(s))

\* ------------------------------------------- lib.rs: TraitObject, Vtable
\* Vtable(*mut ()): a one-field tuple struct.
Vtable(ptr) == <<ptr>>

\* Mutant: the two fields filled the wrong way round.
TraitObject_construct_swapped(vtable, data) == [data |-> vtable[1], vtable |-> data]

TraitObject_construct(vtable, data) == [data |-> data, vtable |-> vtable[1]]

TraitObject_data(self) == self.data

\* Mutant: the wrong field wrapped.
TraitObject_vtable_of_data(self) == Vtable(self.data)

TraitObject_vtable(self) == Vtable(self.vtable)

\* ------------------------------------------- lib.rs: derive_DynSized!
Derived_assemble(vtable, data) ==
    Ret(raw_TraitObject_to_ptr(TraitObject_construct(vtable, data)))

Derived_disassemble(ptr) ==
    LET trait_object == raw_TraitObject_from_ptr(ptr)
    IN  Ret(<<TraitObject_vtable(trait_object), TraitObject_data(trait_object)>>)

\* ---------------------------- tests/unsized_struct_test.rs: MyStruct<T>
MyStruct_assemble(t_ptr) == [ret |-> transmute(t_ptr.ret), derefs |-> t_ptr.derefs]

\* Mutant: a pointer to the field `value` instead of a cast of the pointer.
MyStruct_disassemble_field(ptr) == [i \in 1..Len(ptr) |-> IF i = 1 THEN ptr[1] + UsizeBytes ELSE ptr[i]]

MyStruct_disassemble_cast(ptr) == transmute(ptr)

\* ------------------------------------- DynSized: dispatch on the Self type
RECURSIVE assemble(_, _, _)
assemble(c, meta, data) ==
    IF c.nest > 0 THEN MyStruct_assemble(assemble(Inner(c), meta, data))
    ELSE CASE c.base = "WrapSized" -> WrapSized_assemble(meta, data)
           [] c.base = "Slice" -> Slice_assemble(meta, data)
           [] c.base = "Str" -> Str_assemble(meta, data)
           [] c.base = "Trait" -> Derived_assemble(meta, data)

RECURSIVE disassemble(_, _)
disassemble(c, ptr) ==
    IF c.nest > 0 THEN disassemble(Inner(c), MyStruct_disassemble_cast(ptr))
    ELSE CASE c.base = "WrapSized" -> WrapSized_disassemble(ptr)
           [] c.base = "Slice" -> Slice_disassemble(ptr)
           [] c.base = "Str" -> Str_disassemble(ptr)
           [] c.base = "Trait" -> Derived_disassemble(ptr)

\* Provided methods of the trait.
assemble_mut(c, meta, data) ==
    LET r == assemble(c, meta, data)
    IN  [ret |-> transmute(r.ret), derefs |-> r.derefs]

disassemble_mut(c, ptr) ==
    LET r == disassemble(c, ptr)
    IN  [ret |-> <<r.ret[1], r.ret[2]>>, derefs |-> r.derefs]

DynSized_meta(c, self) ==
    LET r == disassemble(c, self) IN [ret |-> r.ret[1], derefs |-> r.derefs]

DynSized_data(c, self) ==
    LET r == disassemble(c, self) IN [ret |-> r.ret[2], derefs |-> r.derefs]

\* Mutant: a null pointer instead of the data component.
DynSized_data_mut_null(c, self) ==
    LET r == disassemble_mut(c, self) IN [ret |-> 0, derefs |-> r.derefs]

DynSized_data_mut(c, self) ==
    LET r == disassemble_mut(c, self) IN [ret |-> r.ret[2], derefs |-> r.derefs]

\* ------------------------------------------- lib.rs: PtrExt, PtrMutExt
PtrExt_const_meta(c, self) ==
    LET r == disassemble(c, self) IN [ret |-> r.ret[1], derefs |-> r.derefs]

PtrExt_const_data(c, self) ==
    LET r == disassemble(c, self) IN [ret |-> r.ret[2], derefs |-> r.derefs]

PtrExt_mut_meta(c, self) == PtrExt_const_meta(c, transmute(self))

PtrExt_mut_data(c, self) ==
    LET r == disassemble(c, transmute(self)) IN [ret |-> r.ret[2], derefs |-> r.derefs]

PtrMutExt_data_mut(c, self) ==
    LET r == disassemble_mut(c, self) IN [ret |-> r.ret[2], derefs |-> r.derefs]

\* ------------------------------------------------- host: objects in memory
\* The values a caller stores: 3 is the i32 of the trait_object test.
ValueSet == {3, 7}

\* The characters of a text, each with its UTF-8 encoding.
Chars == {"a", "e_acute"}
Utf8(ch) == IF ch = "a" THEN <<97>> ELSE <<195, 169>>

RECURSIVE Utf8Bytes(_)
Utf8Bytes(text) ==
    IF text = <<>> THEN <<>> ELSE Utf8(Head(text)) \o Utf8Bytes(Tail(text))

SeqsUpTo(S, n) == UNION { [1..k -> S] : k \in 0..n }

\* Each thread owns one region of memory; the vtables are statics behind them.
RegionBytes == UsizeBytes * (MaxNest + MaxLen + 1)
ObjAddr(t) == t * RegionBytes
Dangling == UsizeBytes
VtBase == (NumThreads + 1) * RegionBytes
VtIndex(tr, ty) == IF tr = "Foo" THEN 2 ELSE IF ty = "i32" THEN 1 ELSE 0
VtAddr(tr, ty) == VtBase + VtIndex(tr, ty) * 4 * UsizeBytes
VtPairs == { <<tr, ty>> : tr \in {"Any", "Foo", "Underived"}, ty \in ElemTypes }
    \ { <<"Foo", "u8">> }

\* An object: its type, its address, its content and, behind a trait object,
\* its concrete type.
ObjectsOf(c, a) ==
    CASE c.base \in {"WrapSized", "Sized"} ->
            { [cat |-> c, addr |-> a, vals |-> <<v>>, impl |-> c.elem, text |-> <<>>] :
                v \in ValueSet }
      [] c.base = "Slice" ->
            { [cat |-> c, addr |-> a, vals |-> vs, impl |-> c.elem, text |-> <<>>] :
                vs \in SeqsUpTo(ValueSet, MaxLen) }
      [] c.base = "Str" ->
            { [cat |-> c, addr |-> a, vals |-> Utf8Bytes(text), impl |-> c.elem, text |-> text] :
                text \in SeqsUpTo(Chars, MaxLen) }
      [] c.base = "Trait" ->
            { [cat |-> c, addr |-> a, vals |-> <<v>>, impl |-> ty, text |-> <<>>] :
                v \in ValueSet,
                ty \in IF c.elem = "Underived" THEN ElemTypes ELSE Implementors(c.elem) }

Objects(t) == UNION { ObjectsOf(c, ObjAddr(t)) : c \in Cats }

\* Offset of the innermost `value` field: one usize `x` per MyStruct layer.
ValueOffset(c) == UsizeBytes * c.nest

ElemSize(c) == IF c.base = "Trait" THEN 0 ELSE SizeOf[c.elem]

\* The cells of memory an object occupies, as <<address, content>>.
ObjCells(o) ==
    { <<o.addr + UsizeBytes * (k - 1), 5>> : k \in 1..o.cat.nest }
    \cup { <<o.addr + ValueOffset(o.cat)
               + (i - 1) * (IF o.cat.base = "Trait" THEN SizeOf[o.impl] ELSE ElemSize(o.cat)),
             o.vals[i]>> : i \in 1..Len(o.vals) }

\* A vtable: drop glue, size, align, then the trait's method.
VtCells(tr, ty) ==
    { <<VtAddr(tr, ty) + UsizeBytes, SizeOf[ty]>>,
      <<VtAddr(tr, ty) + 2 * UsizeBytes, AlignOf[ty]>>,
      <<VtAddr(tr, ty) + 3 * UsizeBytes, VtAddr(tr, ty)>> }

Heap == UNION { ObjCells(obj[t]) : t \in Threads }
        \cup UNION { VtCells(pr[1], pr[2]) : pr \in VtPairs }

\* What a load from an unmapped address yields.
Poison == -1

Load(a) == IF \E cell \in Heap : cell[1] = a
           THEN (CHOOSE cell \in Heap : cell[1] = a)[2]
           ELSE Poison

\* The pointer the compiler builds for a reference to the object, after the
\* unsizing coercion where the type is unsized.
HostPtr(o) ==
    CASE o.cat.base \in {"WrapSized", "Sized"} -> <<o.addr>>
      [] o.cat.base \in {"Slice", "Str"} -> <<o.addr, Len(o.vals)>>
      [] o.cat.base = "Trait" -> <<o.addr, VtAddr(o.cat.elem, o.impl)>>

\* slice[i] / s.as_bytes()[i] / my_struct.value[i], with its bounds check.
OutOfBounds == -2

host_index(c, w, i) ==
    IF i < w[2]
    THEN LET a == w[1] + ValueOffset(c) + i * ElemSize(c)
         IN  [ret |-> Load(a), derefs |-> {a}]
    ELSE Ret(OutOfBounds)

\* The trait's method, by the function the vtable entry points at:
\* Foo::foo of `impl Foo for i32` and Any::get_type_id.
TypeIdOf == [u8 |-> 108, i32 |-> 132]

Method(fn, self) ==
    IF fn = VtAddr("Foo", "i32") THEN Load(self) + 1
    ELSE IF fn = VtAddr("Any", "i32") THEN TypeIdOf["i32"]
    ELSE IF fn = VtAddr("Any", "u8") THEN TypeIdOf["u8"]
    ELSE Poison

\* A call through a trait-object pointer: the method is loaded from the vtable
\* word and receives the data word (plus the field offset inside MyStruct).
host_call(c, w) ==
    LET slot == w[2] + 3 * UsizeBytes
        self == w[1] + ValueOffset(c)
    IN  [ret |-> Method(Load(slot), self), derefs |-> {slot, self}]

\* What the same call gives on the value itself.
DirectCall(o) ==
    IF o.cat.elem = "Foo" THEN o.vals[1] + 1 ELSE TypeIdOf[o.impl]

\* core::mem::align_of_val and size_of_val of the referent of pointer w.
RECURSIVE mem_align_of_val(_, _)
mem_align_of_val(c, w) ==
    IF c.nest > 0
    THEN LET in == mem_align_of_val(Inner(c), w)
         IN  [ret |-> Max(UsizeBytes, in.ret), derefs |-> in.derefs]
    ELSE CASE c.base = "Trait" ->
                [ret |-> Load(w[2] + 2 * UsizeBytes), derefs |-> {w[2] + 2 * UsizeBytes}]
           [] OTHER -> Ret(AlignOf[c.elem])

RECURSIVE mem_size_of_val(_, _)
mem_size_of_val(c, w) ==
    IF c.nest > 0
    THEN LET in == mem_size_of_val(Inner(c), w)
             al == mem_align_of_val(Inner(c), w)
         IN  [ret |-> RoundUp(RoundUp(UsizeBytes, al.ret) + in.ret, Max(UsizeBytes, al.ret)),
              derefs |-> in.derefs \cup al.derefs]
    ELSE CASE c.base = "Trait" ->
                [ret |-> Load(w[2] + UsizeBytes), derefs |-> {w[2] + UsizeBytes}]
           [] c.base \in {"Slice", "Str"} -> Ret(w[2] * SizeOf[c.elem])
           [] OTHER -> Ret(SizeOf[c.elem])

\* ------------------------------------- lib.rs: size_of_val, align_of_val
\* Mutant: the bound without `?Sized`.
size_of_val_bound_sized(c) == ImplementsDynSized(c) /\ BaseOf(c) = "WrapSized"

\* The bound `T: DynSized + ?Sized` of both functions.
size_of_val_bound(c) == ImplementsDynSized(c)

\* Mutant: the size of the pointer instead of the size of its referent.
size_of_val_of_pointer(c, meta) ==
    LET a == assemble(c, meta, 0)
    IN  [ret |-> UsizeBytes * Len(a.ret), derefs |-> a.derefs]

size_of_val(c, meta) ==
    LET a == assemble(c, meta, 0)
        s == mem_size_of_val(c, a.ret)
    IN  [ret |-> s.ret, derefs |-> a.derefs \cup s.derefs]

align_of_val(c, meta) ==
    LET a == assemble(c, meta, 0)
        s == mem_align_of_val(c, a.ret)
    IN  [ret |-> s.ret, derefs |-> a.derefs \cup s.derefs]

\* ------------------------------------------------------ callers' registers
\* obj[t]  the object thread t owns
\* args[t] the (meta, data) last passed to assemble / the meta passed to size_of_val
\*         (before any call: a null address and a zero of the Meta type)
\* p[t]    the pointer the thread holds: kind of pointer, where it came from, words
\* ret[t]  the result of the thread's last call
\* q[t]    the pointer assembled again from the components in ret[t]
NoArgs(c) ==
    [meta |-> CASE c.base \in {"Slice", "Str"} -> 0
                [] c.base = "Trait" -> Vtable(0)
                [] OTHER -> Unit,
     data |-> 0]
NoPtr == [kind |-> "none", origin |-> "none", words |-> <<>>]
NoRet == [op |-> "none", val |-> <<>>, derefs |-> {}]

PtrKinds == {"const", "mut", "ref", "refmut"}

Cat(t) == obj[t].cat

\* The metadata values of a category, for assemble.
VtAddrsOf(tr) == { VtAddr(tr, ty) : ty \in Implementors(tr) }

MetaInputs(c) ==
    CASE c.base = "WrapSized" -> {Unit}
      [] c.base \in {"Slice", "Str"} -> 0..MaxLen
      [] c.base = "Trait" -> { Vtable(a) : a \in VtAddrsOf(c.elem) \cup {0} }

AddrInputs(t) == {0, Dangling, ObjAddr(t), ObjAddr(t) + UsizeBytes}

\* The metadata of the thread's own object, as the compiler knows it.
OwnMeta(o) ==
    CASE o.cat.base = "WrapSized" -> Unit
      [] o.cat.base \in {"Slice", "Str"} -> Len(o.vals)
      [] o.cat.base = "Trait" -> Vtable(VtAddr(o.cat.elem, o.impl))

\* (meta, data) describes memory the thread may read through the pointer.
Readable(o, a) ==
    /\ a.data = o.addr
    /\ CASE o.cat.base \in {"Slice", "Str"} -> a.meta <= Len(o.vals)
         [] OTHER -> a.meta = OwnMeta(o)

TypeOK ==
    /\ \A t \in Threads : obj[t] \in Objects(t)
    /\ \A t \in Threads : p[t].kind \in PtrKinds \cup {"none"}
    /\ \A t \in Threads : q[t].kind \in PtrKinds \cup {"none"}

InitRegs ==
    /\ args = [t \in Threads |-> NoArgs(Cat(t))]
    /\ p = [t \in Threads |-> NoPtr]
    /\ ret = [t \in Threads |-> NoRet]
    /\ q = [t \in Threads |-> NoPtr]

\* One caller, with every kind of object.
Init ==
    /\ \E o \in Objects(MainThread) :
         obj = [t \in Threads |->
                  IF t = MainThread THEN o
                  ELSE CHOOSE x \in Objects(t) : x.cat.base = "WrapSized" /\ x.cat.nest = 0]
    /\ InitRegs

\* ----------------------------------------------------------------- actions
Done(t, op, r) == [op |-> op, val |-> r.ret, derefs |-> r.derefs]

\* DynSized::assemble(meta, data)
CallAssemble(t) ==
    /\ ImplementsDynSized(Cat(t))
    /\ \E meta \in MetaInputs(Cat(t)), data \in AddrInputs(t) :
         LET r == assemble(Cat(t), meta, data)
         IN  /\ args' = [args EXCEPT ![t] = [meta |-> meta, data |-> data]]
             /\ p' = [p EXCEPT ![t] = [kind |-> "const", origin |-> "assemble", words |-> r.ret]]
             /\ ret' = [ret EXCEPT ![t] = Done(t, "assemble", r)]
    /\ q' = [q EXCEPT ![t] = NoPtr]
    /\ UNCHANGED obj

\* DynSized::assemble_mut(meta, data)
CallAssembleMut(t) ==
    /\ ImplementsDynSized(Cat(t))
    /\ \E meta \in MetaInputs(Cat(t)), data \in AddrInputs(t) :
         LET r == assemble_mut(Cat(t), meta, data)
         IN  /\ args' = [args EXCEPT ![t] = [meta |-> meta, data |-> data]]
             /\ p' = [p EXCEPT ![t] = [kind |-> "mut", origin |-> "assemble", words |-> r.ret]]
             /\ ret' = [ret EXCEPT ![t] = Done(t, "assemble_mut", r)]
    /\ q' = [q EXCEPT ![t] = NoPtr]
    /\ UNCHANGED obj

\* &obj, &mut obj, &obj as *const _, &mut obj as *mut _
Borrow(t) ==
    /\ \E k \in PtrKinds :
         p' = [p EXCEPT ![t] = [kind |-> k, origin |-> "borrow", words |-> HostPtr(obj[t])]]
    /\ args' = [args EXCEPT ![t] = NoArgs(Cat(t))]
    /\ ret' = [ret EXCEPT ![t] = NoRet]
    /\ q' = [q EXCEPT ![t] = NoPtr]
    /\ UNCHANGED obj

\* Mutant: the pointer passed through one static slot all callers share, so
\* that a call may take apart the pointer another thread stored there.
CallDisassemble_static(t) ==
    /\ ImplementsDynSized(Cat(t))
    /\ p[t] # NoPtr
    /\ \E u \in Threads :
         /\ p[u] # NoPtr
         /\ ret' = [ret EXCEPT ![t] =
                      Done(t, "disassemble", disassemble(Cat(t), transmute(p[u].words)))]
    /\ q' = [q EXCEPT ![t] = NoPtr]
    /\ UNCHANGED <<obj, args, p>>

\* DynSized::disassemble(ptr): references and *mut coerce to *const
CallDisassemble(t) ==
    /\ ImplementsDynSized(Cat(t))
    /\ p[t] # NoPtr
    /\ ret' = [ret EXCEPT ![t] = Done(t, "disassemble", disassemble(Cat(t), transmute(p[t].words)))]
    /\ q' = [q EXCEPT ![t] = NoPtr]
    /\ UNCHANGED <<obj, args, p>>

\* DynSized::disassemble_mut(ptr): takes *mut Self
CallDisassembleMut(t) ==
    /\ ImplementsDynSized(Cat(t))
    /\ p[t].kind \in {"mut", "refmut"}
    /\ ret' = [ret EXCEPT ![t] =
                 Done(t, "disassemble_mut", disassemble_mut(Cat(t), transmute(p[t].words)))]
    /\ q' = [q EXCEPT ![t] = NoPtr]
    /\ UNCHANGED <<obj, args, p>>

\* ptr.meta(): PtrExt on raw pointers, DynSized::meta through references
meta_of(k, c, w) ==
    CASE k = "const" -> PtrExt_const_meta(c, w)
      [] k = "mut" -> PtrExt_mut_meta(c, w)
      [] k \in {"ref", "refmut"} -> DynSized_meta(c, w)

\* ptr.data()
data_of(k, c, w) ==
    CASE k = "const" -> PtrExt_const_data(c, w)
      [] k = "mut" -> PtrExt_mut_data(c, w)
      [] k \in {"ref", "refmut"} -> DynSized_data(c, w)

\* ptr.data_mut(): PtrMutExt on *mut T, DynSized::data_mut through &mut
data_mut_of(k, c, w) ==
    CASE k = "mut" -> PtrMutExt_data_mut(c, w)
      [] k = "refmut" -> DynSized_data_mut(c, w)

CallMeta(t) ==
    /\ ImplementsDynSized(Cat(t))
    /\ p[t] # NoPtr
    /\ ret' = [ret EXCEPT ![t] = Done(t, "meta", meta_of(p[t].kind, Cat(t), p[t].words))]
    /\ q' = [q EXCEPT ![t] = NoPtr]
    /\ UNCHANGED <<obj, args, p>>

CallData(t) ==
    /\ ImplementsDynSized(Cat(t))
    /\ p[t] # NoPtr
    /\ ret' = [ret EXCEPT ![t] = Done(t, "data", data_of(p[t].kind, Cat(t), p[t].words))]
    /\ q' = [q EXCEPT ![t] = NoPtr]
    /\ UNCHANGED <<obj, args, p>>

CallDataMut(t) ==
    /\ ImplementsDynSized(Cat(t))
    /\ p[t].kind \in {"mut", "refmut"}
    /\ ret' = [ret EXCEPT ![t] = Done(t, "data_mut", data_mut_of(p[t].kind, Cat(t), p[t].words))]
    /\ q' = [q EXCEPT ![t] = NoPtr]
    /\ UNCHANGED <<obj, args, p>>

\* assemble applied to the two components the last disassemble returned
Reassemble(t) ==
    /\ ImplementsDynSized(Cat(t))
    /\ ret[t].op \in {"disassemble", "disassemble_mut"}
    /\ q[t] = NoPtr
    /\ LET r == IF ret[t].op = "disassemble"
                THEN assemble(Cat(t), ret[t].val[1], ret[t].val[2])
                ELSE assemble_mut(Cat(t), ret[t].val[1], ret[t].val[2])
       IN  q' = [q EXCEPT ![t] =
                   [kind |-> IF ret[t].op = "disassemble" THEN "const" ELSE "mut",
                    origin |-> "assemble", words |-> r.ret]]
    /\ UNCHANGED <<obj, args, p, ret>>

\* size_of_val::<T>(meta), with the metadata of the thread's object
CallSizeOfVal(t) ==
    /\ size_of_val_bound(Cat(t))
    /\ args' = [args EXCEPT ![t] = [meta |-> OwnMeta(obj[t]), data |-> 0]]
    /\ ret' = [ret EXCEPT ![t] = Done(t, "size_of_val", size_of_val(Cat(t), OwnMeta(obj[t])))]
    /\ p' = [p EXCEPT ![t] = NoPtr]
    /\ q' = [q EXCEPT ![t] = NoPtr]
    /\ UNCHANGED obj

\* align_of_val::<T>(meta)
CallAlignOfVal(t) ==
    /\ size_of_val_bound(Cat(t))
    /\ args' = [args EXCEPT ![t] = [meta |-> OwnMeta(obj[t]), data |-> 0]]
    /\ ret' = [ret EXCEPT ![t] = Done(t, "align_of_val", align_of_val(Cat(t), OwnMeta(obj[t])))]
    /\ p' = [p EXCEPT ![t] = NoPtr]
    /\ q' = [q EXCEPT ![t] = NoPtr]
    /\ UNCHANGED obj

\* The pointer the thread reads through: the reassembled one when there is one.
Handle(t) == IF q[t] # NoPtr THEN q[t] ELSE p[t]

MayRead(t) ==
    /\ Handle(t) # NoPtr
    /\ p[t].origin = "assemble" => Readable(obj[t], args[t])

\* (&*ptr)[i], for a slice, a str's bytes or a struct ending in one
Index(t) ==
    /\ BaseOf(Cat(t)) \in {"Slice", "Str"}
    /\ MayRead(t)
    /\ \E i \in 0..(MaxLen - 1) :
         LET r == host_index(Cat(t), Handle(t).words, i)
         IN  ret' = [ret EXCEPT ![t] = [op |-> "index", val |-> <<i, r.ret>>, derefs |-> r.derefs]]
    /\ UNCHANGED <<obj, args, p, q>>

\* (&*ptr).op(), for a trait object or a struct ending in one
Invoke(t) ==
    /\ BaseOf(Cat(t)) = "Trait"
    /\ Cat(t).elem \in Traits
    /\ MayRead(t)
    /\ ret' = [ret EXCEPT ![t] = Done(t, "invoke", host_call(Cat(t), Handle(t).words))]
    /\ UNCHANGED <<obj, args, p, q>>

Step(t) ==
    \/ CallAssemble(t)
    \/ CallAssembleMut(t)
    \/ Borrow(t)
    \/ CallDisassemble(t)
    \/ CallDisassembleMut(t)
    \/ CallMeta(t)
    \/ CallData(t)
    \/ CallDataMut(t)
    \/ Reassemble(t)
    \/ CallSizeOfVal(t)
    \/ CallAlignOfVal(t)
    \/ Index(t)
    \/ Invoke(t)

Next == Step(MainThread)

Spec == Init /\ [][Next]_vars

\* ------------------------------------------------------------------ claims
Splits == {"disassemble", "disassemble_mut"}
Joins == {"assemble", "assemble_mut"}

\* C1: for every category and every (meta, address), disassemble (or
\* disassemble_mut) of the pointer assemble (or assemble_mut) built from the
\* pair returns exactly (meta, address), in that order.
C1_RoundTrip ==
    \A t \in Threads :
        (p[t].origin = "assemble" /\ ret[t].op \in Splits)
            => ret[t].val = <<args[t].meta, args[t].data>>

C1_Witness ==
    \E t \in Threads :
        /\ p[t].origin = "assemble" /\ ret[t].op = "disassemble"
        /\ Cat(t).base = "Trait" /\ Cat(t).nest = 0
        /\ args[t].data = ObjAddr(t) /\ args[t].meta # Vtable(0)
        /\ ret[t].val = <<args[t].meta, args[t].data>>

\* The value reading element i of the thread's own sequence gives.
DirectIndex(o, i) == IF i < Len(o.vals) THEN o.vals[i + 1] ELSE OutOfBounds

\* C2: for a wide pointer the compiler built to a slice, a str or a struct
\* ending in an unsized field, assembling the two components disassemble
\* returned gives the same words again, and reading through the reassembled
\* pointer gives the content of the original.
C2_ReverseRoundTrip ==
    \A t \in Threads :
        (p[t].origin = "borrow" /\ q[t] # NoPtr /\ Len(p[t].words) = 2)
            => /\ q[t].words = p[t].words
               /\ ret[t].op = "index" => ret[t].val[2] = DirectIndex(obj[t], ret[t].val[1])

C2_Witness ==
    \E t \in Threads :
        /\ p[t].origin = "borrow" /\ q[t] # NoPtr
        /\ Cat(t).nest > 0 /\ Cat(t).base = "Slice" /\ Len(obj[t].vals) = MaxLen
        /\ q[t].words = p[t].words
        /\ ret[t].op = "index" /\ ret[t].val = <<1, obj[t].vals[2]>>

\* C3: assemble, assemble_mut, disassemble and disassemble_mut touch no
\* memory, whatever the data address (null and dangling included) and
\* whatever the dispatch-table address.
C3_NeverDereference ==
    \A t \in Threads :
        ret[t].op \in Joins \cup Splits => ret[t].derefs = {}

C3_Witness ==
    \E t \in Threads :
        /\ ret[t].op = "disassemble_mut" /\ p[t].origin = "assemble"
        /\ args[t].data = Dangling /\ Cat(t).base = "Slice" /\ args[t].meta = MaxLen
        /\ ret[t].derefs = {}

Sizes == {"size_of_val", "align_of_val"}

\* C4 as stated: size_of_val and align_of_val can be called only for
\* WrapSized, [T] and str, not for a derived trait-object type.
C4_OnlyBuiltins ==
    \A t \in Threads :
        ret[t].op \in Sizes => BaseOf(Cat(t)) \in {"WrapSized", "Slice", "Str"}

\* C4 amended: size_of_val and align_of_val are bounded by DynSized alone:
\* they are called only on types that implement it, and can be called on
\* every type that does, the derived trait-object types included.  (Whether
\* the call is possible depends on the caller's type alone, which no action
\* changes: it is asked where the caller holds no result yet.)
C4_BoundIsDynSized ==
    \A t \in Threads :
        /\ ret[t].op \in Sizes => ImplementsDynSized(Cat(t))
        /\ (ImplementsDynSized(Cat(t)) /\ ret[t] = NoRet)
               => ENABLED CallSizeOfVal(t) /\ ENABLED CallAlignOfVal(t)

C4_Witness ==
    \E t \in Threads :
        /\ ret[t].op = "size_of_val"
        /\ Cat(t).base = "Trait" /\ Cat(t).elem = "Any" /\ Cat(t).nest = 0
        /\ ret[t].val = SizeOf[obj[t].impl]

\* C5: for WrapSized<T> the metadata is the unit value, assemble and
\* disassemble pass the address through, and size_of_val / align_of_val give
\* T's size and alignment, touching no memory, from a null address.
C5_WrapSized ==
    \A t \in Threads :
        (Cat(t).base = "WrapSized" /\ Cat(t).nest = 0) =>
            /\ ret[t].op \in Joins => ret[t].val = <<args[t].data>>
            /\ ret[t].op \in Splits => ret[t].val = <<Unit, p[t].words[1]>>
            /\ ret[t].op = "meta" => ret[t].val = Unit
            /\ ret[t].op = "size_of_val" =>
                   ret[t].val = SizeOf[Cat(t).elem] /\ ret[t].derefs = {}
            /\ ret[t].op = "align_of_val" =>
                   ret[t].val = AlignOf[Cat(t).elem] /\ ret[t].derefs = {}

C5_Witness ==
    \E t \in Threads :
        /\ Cat(t) = [nest |-> 0, base |-> "WrapSized", elem |-> "i32"]
        /\ ret[t].op = "size_of_val" /\ ret[t].val = 4 /\ args[t].data = 0

\* C6: for [T] and str, the pointer assemble(N, A) builds has meta() = N and
\* data() = A; with N elements really at A, element i read through it is
\* element i of the sequence; and the metadata of a str the compiler built is
\* the length in bytes of the text's UTF-8 encoding.
C6_ArrayAndText ==
    \A t \in Threads :
        (Cat(t).base \in {"Slice", "Str"} /\ Cat(t).nest = 0) =>
            /\ (p[t].origin = "assemble" /\ ret[t].op = "meta") => ret[t].val = args[t].meta
            /\ (p[t].origin = "assemble" /\ ret[t].op \in {"data", "data_mut"})
                   => ret[t].val = args[t].data
            /\ (p[t].origin = "assemble" /\ ret[t].op = "index" /\ ret[t].val[1] < args[t].meta)
                   => ret[t].val[2] = obj[t].vals[ret[t].val[1] + 1]
            /\ (Cat(t).base = "Str" /\ p[t].origin = "borrow" /\ ret[t].op = "meta")
                   => ret[t].val = Len(Utf8Bytes(obj[t].text))

C6_Witness ==
    \E t \in Threads :
        /\ Cat(t).base = "Slice" /\ Cat(t).nest = 0 /\ Cat(t).elem = "i32"
        /\ p[t].origin = "assemble" /\ q[t] = NoPtr
        /\ args[t] = [meta |-> MaxLen, data |-> ObjAddr(t)]
        /\ ret[t].op = "index" /\ ret[t].val = <<1, obj[t].vals[2]>>
        /\ obj[t].vals[2] # obj[t].vals[1]

\* C7: for a derived trait-object type, assemble(D, A) builds the pointer
\* with A in its first word and D in its second, a call through it gives
\* what the same call gives on the value itself, and
\* TraitObject::construct(D, A) has data() = A and vtable() = D.
C7_TraitObject ==
    \A t \in Threads :
        (Cat(t).base = "Trait" /\ Cat(t).nest = 0 /\ p[t].origin = "assemble") =>
            /\ p[t].words = <<args[t].data, args[t].meta[1]>>
            /\ ret[t].op = "invoke" => ret[t].val = DirectCall(obj[t])
            /\ TraitObject_data(TraitObject_construct(args[t].meta, args[t].data))
                   = args[t].data
            /\ TraitObject_vtable(TraitObject_construct(args[t].meta, args[t].data))
                   = args[t].meta

C7_Witness ==
    \E t \in Threads :
        /\ Cat(t) = [nest |-> 0, base |-> "Trait", elem |-> "Foo"]
        /\ p[t].origin = "assemble" /\ q[t] = NoPtr
        /\ ret[t].op = "invoke" /\ ret[t].val = obj[t].vals[1] + 1

\* C8: whatever the kind of pointer (*const, *mut, & or &mut), meta() is the
\* first and data() the second component of disassemble of the pointer,
\* data_mut() is the address data() gives, and disassemble_mut returns what
\* disassemble returns.
C8_PtrExtUniform ==
    \A t \in Threads :
        (p[t] # NoPtr /\ ImplementsDynSized(Cat(t))) =>
            LET d == disassemble(Cat(t), p[t].words).ret
            IN  /\ ret[t].op = "meta" => ret[t].val = d[1]
                /\ ret[t].op \in {"data", "data_mut"} => ret[t].val = d[2]
                /\ ret[t].op = "disassemble_mut" => ret[t].val = d
                /\ \A k \in PtrKinds :
                       /\ meta_of(k, Cat(t), p[t].words).ret = d[1]
                       /\ data_of(k, Cat(t), p[t].words).ret = d[2]
                /\ \A k \in {"mut", "refmut"} :
                       data_mut_of(k, Cat(t), p[t].words).ret
                           = data_of(k, Cat(t), p[t].words).ret

C8_Witness ==
    \E t \in Threads :
        /\ p[t].kind = "refmut" /\ p[t].origin = "borrow"
        /\ Cat(t).base = "Slice" /\ Len(obj[t].vals) = MaxLen
        /\ ret[t].op = "data_mut" /\ ret[t].val = ObjAddr(t)

\* C9: for a struct whose last field is unsized, meta() of a pointer to the
\* struct is the metadata of the last field, data() is the address of the
\* struct and not of the field, and assemble(meta, struct address) is the
\* pointer the compiler builds by unsizing a reference to the struct.
C9_TrailingUnsized ==
    \A t \in Threads :
        (Cat(t).nest > 0 /\ Cat(t).base \in {"Slice", "Str", "Trait"}) =>
            /\ (p[t].origin = "borrow" /\ ret[t].op = "meta") => ret[t].val = OwnMeta(obj[t])
            /\ (p[t].origin = "borrow" /\ ret[t].op \in {"data", "data_mut"}) =>
                   ret[t].val = obj[t].addr /\ ret[t].val # obj[t].addr + ValueOffset(Cat(t))
            /\ (p[t].origin = "assemble" /\ args[t].data = obj[t].addr
                    /\ args[t].meta = OwnMeta(obj[t]))
                   => p[t].words = HostPtr(obj[t])

C9_Witness ==
    \E t \in Threads :
        /\ Cat(t) = [nest |-> 1, base |-> "Slice", elem |-> "i32"]
        /\ Len(obj[t].vals) = MaxLen
        /\ p[t].origin = "borrow" /\ ret[t].op = "data" /\ ret[t].val = obj[t].addr

\* ------------------------------------------------------------ concurrency
\* Several callers, each with an object of its own in its own region: a slice
\* for the odd threads, a trait object for the even ones.  Any thread may take
\* the next step.
ConcObject(t) ==
    CHOOSE o \in Objects(t) :
        /\ o.cat = (IF t % 2 = 1 THEN [nest |-> 0, base |-> "Slice", elem |-> "i32"]
                    ELSE [nest |-> 0, base |-> "Trait", elem |-> "Foo"])
        /\ Len(o.vals) = (IF t % 2 = 1 THEN MaxLen ELSE 1)

InitConc ==
    /\ obj = [t \in Threads |-> ConcObject(t)]
    /\ InitRegs

NextConc ==
    \E t \in Threads :
        \/ CallAssemble(t)
        \/ CallDisassemble(t)
        \/ CallMeta(t)
        \/ CallData(t)

SpecConc == InitConc /\ [][NextConc]_vars

\* The words assemble gives for (meta, data) when nothing else runs.
AloneWords(c, a) ==
    IF c.base = "Trait" THEN <<a.data, a.meta[1]>> ELSE <<a.data, a.meta>>

AloneResults ==
    \A t \in Threads :
        p[t].origin = "assemble" =>
            /\ p[t].words = AloneWords(Cat(t), args[t])
            /\ ret[t].op = "assemble" => ret[t].val = AloneWords(Cat(t), args[t])
            /\ ret[t].op = "disassemble" => ret[t].val = <<args[t].meta, args[t].data>>
            /\ ret[t].op = "meta" => ret[t].val = args[t].meta
            /\ ret[t].op = "data" => ret[t].val = args[t].data
            /\ ret[t].derefs = {}

Regs(t) == <<obj[t], args[t], p[t], ret[t], q[t]>>

OneThreadMoves ==
    \E t \in Threads : \A u \in Threads \ {t} : Regs(u)' = Regs(u)

\* C10: with threads interleaving assemble, disassemble, meta and data on
\* pointers built from addresses of their own, every call returns what it
\* returns when run alone, and no step of one thread changes anything
\* another thread holds.
C10_NoInterference == []AloneResults /\ [][OneThreadMoves]_vars

C10_Witness ==
    /\ \A t \in Threads :
           /\ p[t].origin = "assemble" /\ args[t].data = ObjAddr(t)
           /\ args[t].meta = OwnMeta(obj[t])
    /\ ret[1].op = "disassemble" /\ ret[1].val = <<MaxLen, ObjAddr(1)>>
    /\ ret[2].op = "data" /\ ret[2].val = ObjAddr(2)

====
